---- MODULE Spec2Model ----
(***************************************************************************)
(* A model of the IRT estimation core of fastapi-backend/                  *)
(* adaptive_difficulty.py: estimate_ability, estimate_question_difficulty  *)
(* and the helpers they use, and of three functions of main.py:            *)
(* generate_sat_question, submit_answer and update_leaderboard_entry.      *)
(*                                                                         *)
(* Number representation.  Python floats are modelled as fixed-point       *)
(* integers counting thousandths (Scale units make 1.0), so 0.25 is 250    *)
(* and the tolerance 0.001 is 1.  Products and quotients are rounded to    *)
(* the nearest thousandth.  The representable range is [-FloatMax,         *)
(* FloatMax]: the model's floats overflow where the doubles of the program *)
(* do, only earlier, so a discrimination whose square leaves the range     *)
(* (HugeDisc) stands for a double such as 1e200 whose square leaves the    *)
(* double range.  1/(1+exp(-z)) is read from a table of the logistic       *)
(* function at steps of 0.25, interpolated linearly (error below one       *)
(* thousandth).                                                            *)
(***************************************************************************)
EXTENDS Integers, Sequences, FiniteSets, TLC

VARIABLES
    op,               \* the function that was called
    args,             \* its arguments (a record), fixed for the call
    pc,               \* position of the call: "call", "loop", "after", "overall",
                      \* "fetched", "retry", "stored", "queued", "returned",
                      \* "raised", "sent"
    ability,          \* estimate_ability: local `ability`
    simple_ability,   \* estimate_ability: local `simple_ability`
    difficulty,       \* estimate_question_difficulty: local `difficulty`
    hessian,          \* local `hessian`; Unbound until the loop body assigns it
    safe_iterations,  \* estimate_ability: local `safe_iterations`
    iter,             \* number of values already taken from range(max_iter)
    overall_ability,  \* get_user_ability: local `overall_ability`
    topic_abilities,  \* get_user_ability: the entry stored per topic
    estimator_calls,  \* get_user_ability: the estimate_ability calls made so far
    attempts,         \* generate_sat_question: how each pass of the retry loop ended
    user_progress,    \* the rows of table user_progress
    leaderboards,     \* the rows of table leaderboards, by user_id
    background_tasks, \* submit_answer: the tasks added to local `background_tasks`
    steps,            \* number of Newton-Raphson updates computed so far
    path,             \* the statement that ended the call: "empty", "except", "final", "raise"
    result            \* the returned pair, or the exception that left the call

vars == <<op, args, pc, ability, simple_ability, difficulty, hessian,
          safe_iterations, iter, overall_ability, topic_abilities, estimator_calls,
          attempts, user_progress, leaderboards, background_tasks,
          steps, path, result>>

----------------------------------------------------------------------------
(* Fixed-point arithmetic *)

Scale == 10 * 10 * 10

FloatMax == Scale * Scale

\* A local variable that has not been assigned yet: a value outside the
\* representable range.
Unbound == -(FloatMax + 1)

Abs(x) == IF x < 0 THEN -x ELSE x

Min2(a, b) == IF a <= b THEN a ELSE b

Max2(a, b) == IF a >= b THEN a ELSE b

\* a / b rounded to the nearest integer, halves away from zero (b # 0).
RDiv(a, b) ==
    LET n == Abs(a)
        d == Abs(b)
        q == IF 2 * (n % d) >= d THEN n \div d + 1 ELSE n \div d
    IN  IF (a < 0) = (b < 0) THEN q ELSE -q

Mul(a, b) == RDiv(a * b, Scale)

Div(a, b) == RDiv(a * Scale, b)

\* Saturation at the ends of the representable range (IEEE overflow to inf).
Sat(x) == Min2(Max2(x, -FloatMax), FloatMax)

\* x ** 2 on Python floats raises OverflowError when the square leaves the range.
SquareOverflows(x) == Abs(x) > Scale /\ Mul(x, x) > FloatMax

\* min(max(x, lo), hi)
Clamp(x, lo, hi) == Min2(Max2(x, lo), hi)

\* sum(s) for a sequence of numbers
RECURSIVE SumSeq(_)
SumSeq(s) == IF s = << >> THEN 0 ELSE Head(s) + SumSeq(Tail(s))

\* 1000 / (1 + exp(-i/4)) for i = 0 .. 33, rounded
LogisticTable ==
    << 500, 562, 622, 679, 731, 777, 818, 852, 881, 905, 924, 940, 953, 963,
       971, 977, 982, 986, 989, 991, 993, 995, 996, 997, 998, 998, 998, 999,
       999, 999, 999, 1000, 1000, 1000 >>

TableStep == Scale \div 4

\* 1 / (1 + np.exp(-z))
Logistic(z) ==
    LET a    == Abs(z)
        i    == a \div TableStep
        f    == a % TableStep
        up   == IF i >= Len(LogisticTable) - 1
                THEN Scale
                ELSE LogisticTable[i + 1]
                     + RDiv((LogisticTable[i + 2] - LogisticTable[i + 1]) * f, TableStep)
    IN  IF z >= 0 THEN up ELSE Scale - up

----------------------------------------------------------------------------
(* Program constants, in thousandths *)

INITIAL_ABILITY == 0

DefaultGuess == 250

DefaultMaxIter == 25

DefaultTolerance == 1

ZLimit == 15000

PMin == 1

PMax == 999

HessianFloor == 10

StepLimit == 500

AbilityLimit == 3000

\* Mutant of SafeIterationLimit: the break one pass late.
SafeIterationLimitLate == 10 + 1

SafeIterationLimit == 10

ConfidenceCap == 10000

FallbackConfidence == 500

\* topic_ability += 0.5 in challenge mode
ChallengeBonus == 500

----------------------------------------------------------------------------
(* Results of a call *)

NoResult == [kind |-> "none"]

ReturnedValue(v) == [kind |-> "return", value |-> v]

Returned(v, c) == [kind |-> "return", value |-> v, confidence |-> c]

Raised(e) == [kind |-> "raise", exception |-> e]

----------------------------------------------------------------------------
(* estimate_ability *)

\* discriminations, after `if discriminations is None`
AbilityDiscriminations(a) ==
    IF a.discriminations_none
    THEN [i \in 1..Len(a.difficulties) |-> Scale]
    ELSE a.discriminations

\* Mutants of SimpleAbility: the success rate not centred on 0.5, and the
\* mapping with its sign reversed.
SimpleAbilityUncentred(responses) ==
    LET success_rate == Div(SumSeq(responses) * Scale, Len(responses) * Scale)
    IN  Mul(success_rate, 6 * Scale)

SimpleAbilityReversed(responses) ==
    LET success_rate == Div(SumSeq(responses) * Scale, Len(responses) * Scale)
    IN  Mul(Scale \div 2 - success_rate, 6 * Scale)

\* success_rate = sum(responses) / len(responses); simple_ability = (success_rate - 0.5) * 6
SimpleAbility(responses) ==
    LET success_rate == Div(SumSeq(responses) * Scale, Len(responses) * Scale)
    IN  Mul(success_rate - Scale \div 2, 6 * Scale)

\* Mutant of Seed: the search starts at the prior (the first assignment to
\* `ability`, which the program overwrites).
SeedFromPrior(a) == a.prior_ability

\* the seed of the search: simple_ability clamped to [-3, 3]
Seed(a) == Clamp(SimpleAbility(a.responses), -AbilityLimit, AbilityLimit)

\* one element of probs: the clamped 3PL success probability
AbilityProb(theta, diff, disc, guess) ==
    LET z == Clamp(Mul(disc, theta - diff), -ZLimit, ZLimit)
        p == guess + Mul(Scale - guess, Logistic(z))
    IN  Clamp(p, PMin, PMax)

\* probs, built over zip(difficulties, discriminations)
AbilityProbs(theta, a) ==
    LET discs == AbilityDiscriminations(a)
    IN  [i \in 1..Min2(Len(a.difficulties), Len(discs)) |->
            AbilityProb(theta, a.difficulties[i], discs[i], a.guess)]

\* gradient: sum over zip(responses, probs, discriminations), plus the prior's pull
AbilityGradient(theta, a) ==
    LET discs == AbilityDiscriminations(a)
        probs == AbilityProbs(theta, a)
        m     == Min2(Len(a.responses), Min2(Len(probs), Len(discs)))
    IN  SumSeq([i \in 1..m |-> Mul(a.responses[i] * Scale - probs[i], discs[i])])
        + Mul(a.prior_weight, a.prior_ability - theta)

\* disc**2 raises OverflowError for some disc in zip(probs, discriminations)
AbilityHessianRaises(a) ==
    LET discs == AbilityDiscriminations(a)
        m     == Min2(Len(a.difficulties), Len(discs))
    IN  \E i \in 1..m : SquareOverflows(discs[i])

\* Mutant of AbilityHessianRaw: the prior adds no curvature.
AbilityHessianRawNoPrior(theta, a) ==
    LET discs == AbilityDiscriminations(a)
        probs == AbilityProbs(theta, a)
        m     == Min2(Len(probs), Len(discs))
    IN  -SumSeq([i \in 1..m |->
                    Mul(Mul(probs[i], Scale - probs[i]), Mul(discs[i], discs[i]))])

\* hessian: -sum(p * (1 - p) * disc**2) - prior_weight
AbilityHessianRaw(theta, a) ==
    LET discs == AbilityDiscriminations(a)
        probs == AbilityProbs(theta, a)
        m     == Min2(Len(probs), Len(discs))
    IN  -SumSeq([i \in 1..m |->
                    Mul(Mul(probs[i], Scale - probs[i]), Mul(discs[i], discs[i]))])
        - a.prior_weight

\* Mutant of HessianGuard: a Hessian near zero is used as it is.
HessianUnguarded(h) == h

\* if abs(hessian) < 0.01: hessian = -0.01 (both branches of the conditional)
HessianGuard(h) == IF Abs(h) < HessianFloor THEN -HessianFloor ELSE h

\* the hessian the loop body leaves in `hessian`
AbilityHessian(theta, a) == HessianGuard(AbilityHessianRaw(theta, a))

\* Mutant of AbilityUpdate: the Newton step is taken at full length.
AbilityUpdateUncapped(theta, a) ==
    Div(AbilityGradient(theta, a), AbilityHessian(theta, a))

\* update = gradient / hessian, limited to [-0.5, 0.5]
AbilityUpdate(theta, a) ==
    Clamp(Div(AbilityGradient(theta, a), AbilityHessian(theta, a)), -StepLimit, StepLimit)

\* ability_new = ability + update, kept in [-3, 3]
AbilityNew(theta, a) ==
    Clamp(theta + AbilityUpdate(theta, a), -AbilityLimit, AbilityLimit)

\* Mutant of AbilityConverged: the difference is compared without abs().
AbilityConvergedSigned(theta, a) == AbilityNew(theta, a) - theta < a.tolerance

\* abs(ability_new - ability) < tolerance
AbilityConverged(theta, a) == Abs(AbilityNew(theta, a) - theta) < a.tolerance

\* Mutant of AbilityFallbackResult: the fallback returns the prior.
FallbackFromPrior(a) == Returned(a.prior_ability, FallbackConfidence)

\* the value of the exception fallback: return simple_ability, 0.5
AbilityFallbackResult(a) == Returned(SimpleAbility(a.responses), FallbackConfidence)

\* confidence = min(abs(hessian), 10.0), the final sanity clamp, and the return
AbilityFinalResult(theta, h) ==
    Returned(Clamp(theta, -AbilityLimit, AbilityLimit), Min2(Abs(h), ConfidenceCap))

\* the for loop, from the point where `i` values of range(max_iter) are used up
RECURSIVE AbilityLoop(_, _, _, _)
AbilityLoop(a, theta, h, i) ==
    IF i >= a.max_iter \/ i + 1 > SafeIterationLimit
    THEN IF h = Unbound THEN Raised("UnboundLocalError") ELSE AbilityFinalResult(theta, h)
    ELSE IF AbilityHessianRaises(a)
    THEN AbilityFallbackResult(a)
    ELSE IF AbilityConverged(theta, a)
    THEN AbilityFinalResult(AbilityNew(theta, a), AbilityHessian(theta, a))
    ELSE AbilityLoop(a, AbilityNew(theta, a), AbilityHessian(theta, a), i + 1)

\* estimate_ability as a function of its arguments
EstimateAbility(a) ==
    IF a.responses = << >>
    THEN Returned(a.prior_ability, 0)
    ELSE AbilityLoop(a, Seed(a), Unbound, 0)

----------------------------------------------------------------------------
(* calculate_success_probability and estimate_question_difficulty *)

\* z = discrimination * (ability - difficulty), as it is handed to np.exp
ProbabilityExponent(theta, b, disc) == Sat(Mul(disc, theta - b))

\* p = guess + (1 - guess) / (1 + np.exp(-z)) with z = discrimination * (ability - difficulty);
\* np.exp overflows to inf without raising, which the saturating table reproduces
calculate_success_probability(theta, b, disc, guess) ==
    LET z == ProbabilityExponent(theta, b, disc)
    IN  guess + Mul(Scale - guess, Logistic(z))

\* discriminations, after `if discriminations is None`
DifficultyDiscriminations(a) ==
    IF a.discriminations_none
    THEN [i \in 1..Len(a.abilities) |-> Scale]
    ELSE a.discriminations

\* probs, built over zip(abilities, discriminations)
DifficultyProbs(b, a) ==
    LET discs == DifficultyDiscriminations(a)
    IN  [i \in 1..Min2(Len(a.abilities), Len(discs)) |->
            calculate_success_probability(a.abilities[i], b, discs[i], a.guess)]

\* gradient = -sum((r - p) * disc) + prior_weight * (prior_difficulty - difficulty)
DifficultyGradient(b, a) ==
    LET discs == DifficultyDiscriminations(a)
        probs == DifficultyProbs(b, a)
        m     == Min2(Len(a.responses), Min2(Len(probs), Len(discs)))
    IN  -SumSeq([i \in 1..m |-> Mul(a.responses[i] * Scale - probs[i], discs[i])])
        + Mul(a.prior_weight, a.prior_difficulty - b)

\* disc**2 raises OverflowError for some disc in zip(probs, discriminations)
DifficultyHessianRaises(a) ==
    LET discs == DifficultyDiscriminations(a)
        m     == Min2(Len(a.abilities), Len(discs))
    IN  \E i \in 1..m : SquareOverflows(discs[i])

\* hessian = -sum(p * (1 - p) * disc**2) - prior_weight
DifficultyHessian(b, a) ==
    LET discs == DifficultyDiscriminations(a)
        probs == DifficultyProbs(b, a)
        m     == Min2(Len(probs), Len(discs))
    IN  -SumSeq([i \in 1..m |->
                    Mul(Mul(probs[i], Scale - probs[i]), Mul(discs[i], discs[i]))])
        - a.prior_weight

\* update = gradient / (hessian - 1e-8): 1e-8 is below the model's resolution and
\* matters only where the hessian is zero, where the quotient leaves the range
DifficultyUpdate(b, a) ==
    LET g == DifficultyGradient(b, a)
        h == DifficultyHessian(b, a)
    IN  IF h # 0 THEN Sat(Div(g, h))
        ELSE IF g > 0 THEN -FloatMax
        ELSE IF g < 0 THEN FloatMax
        ELSE 0

\* difficulty_new = difficulty + update
DifficultyNew(b, a) == Sat(b + DifficultyUpdate(b, a))

\* abs(difficulty_new - difficulty) < tolerance
DifficultyConverged(b, a) == Abs(DifficultyNew(b, a) - b) < a.tolerance

----------------------------------------------------------------------------
(* The difficulty-level mapper *)

\* Python's None as a level: a key that is no integer of the table.
NoneLevel == -(FloatMax + 2)

\* Mutant of irt_to_difficulty_level: the comparisons strict, so that a value on
\* a boundary goes to the upper tier.
IrtToLevelStrict(irt_difficulty) ==
    IF irt_difficulty < -(3 * Scale) \div 2 THEN 1
    ELSE IF irt_difficulty < -Scale \div 2 THEN 2
    ELSE IF irt_difficulty < Scale \div 2 THEN 3
    ELSE IF irt_difficulty < (3 * Scale) \div 2 THEN 4
    ELSE 5

irt_to_difficulty_level(irt_difficulty) ==
    IF irt_difficulty <= -(3 * Scale) \div 2 THEN 1
    ELSE IF irt_difficulty <= -Scale \div 2 THEN 2
    ELSE IF irt_difficulty <= Scale \div 2 THEN 3
    ELSE IF irt_difficulty <= (3 * Scale) \div 2 THEN 4
    ELSE 5

\* Mutants of difficulty_level_to_irt: the table read as if the levels started at
\* 0, and a level outside the table taken to the nearest end of the table.
LevelToIrtZeroBased(level) ==
    CASE level = 0 -> -2 * Scale
      [] level = 1 -> -Scale
      [] level = 2 -> 0
      [] level = 3 -> Scale
      [] level = 4 -> 2 * Scale
      [] OTHER -> 0

LevelToIrtNearest(level) ==
    CASE level = 1 -> -2 * Scale
      [] level = 2 -> -Scale
      [] level = 3 -> 0
      [] level = 4 -> Scale
      [] level = 5 -> 2 * Scale
      [] level # NoneLevel /\ level < 1 -> -2 * Scale
      [] level # NoneLevel /\ level > 5 -> 2 * Scale
      [] OTHER -> 0

\* mapping.get(level, 0.0)
difficulty_level_to_irt(level) ==
    CASE level = 1 -> -2 * Scale
      [] level = 2 -> -Scale
      [] level = 3 -> 0
      [] level = 4 -> Scale
      [] level = 5 -> 2 * Scale
      [] OTHER -> 0

----------------------------------------------------------------------------
(* get_user_ability and recommend_difficulty *)

\* the responses of one list of user_progress rows: 1 if correct else 0
RecordResponses(records) ==
    [i \in 1..Len(records) |-> IF records[i].correct THEN 1 ELSE 0]

\* their difficulties: difficulty_level_to_irt(difficulty_level)
RecordDifficulties(records) ==
    [i \in 1..Len(records) |-> difficulty_level_to_irt(records[i].difficulty_level)]

\* the rows questions_by_topic collects under one topic
TopicRecords(records, topic) == SelectSeq(records, LAMBDA r : r.topic = topic)

\* the keys of questions_by_topic
TopicsOf(records) == {records[i].topic : i \in 1..Len(records)}

\* the keys of questions_by_topic in the order the dictionary yields them: the order
\* in which the topics first appear in the rows
RECURSIVE TopicOrder(_)
TopicOrder(records) ==
    IF records = << >> THEN << >>
    ELSE LET front == TopicOrder(SubSeq(records, 1, Len(records) - 1))
             last == records[Len(records)].topic
         IN  IF \E i \in 1..Len(front) : front[i] = last
             THEN front
             ELSE Append(front, last)

\* Mutant of UserAbilityArgs: every estimate starts from INITIAL_ABILITY.
UserAbilityArgsInitialPrior(records, prior) ==
    [responses |-> RecordResponses(records), difficulties |-> RecordDifficulties(records),
     discriminations_none |-> TRUE, discriminations |-> << >>,
     guess |-> DefaultGuess, prior_ability |-> INITIAL_ABILITY, prior_weight |-> Scale,
     max_iter |-> DefaultMaxIter, tolerance |-> DefaultTolerance]

\* estimate_ability(responses, difficulties, prior_ability=...), everything else default
UserAbilityArgs(records, prior) ==
    [responses |-> RecordResponses(records), difficulties |-> RecordDifficulties(records),
     discriminations_none |-> TRUE, discriminations |-> << >>,
     guess |-> DefaultGuess, prior_ability |-> prior, prior_weight |-> Scale,
     max_iter |-> DefaultMaxIter, tolerance |-> DefaultTolerance]

\* overall_ability, overall_confidence = estimate_ability(..., prior_ability=INITIAL_ABILITY)
OverallEstimate(records) == EstimateAbility(UserAbilityArgs(records, INITIAL_ABILITY))

\* ability, confidence = estimate_ability(..., prior_ability=overall_ability) of one topic
TopicEstimate(records, topic, prior) ==
    EstimateAbility(UserAbilityArgs(TopicRecords(records, topic), prior))

\* topic_abilities[topic]: the topic's estimate and the number of its rows
TopicEntry(records, topic, prior) ==
    LET estimate == TopicEstimate(records, topic, prior)
    IN  [ability |-> estimate.value, confidence |-> estimate.confidence,
         question_count |-> Len(RecordResponses(TopicRecords(records, topic)))]

\* get_user_ability: the overall estimate against INITIAL_ABILITY, then one estimate
\* per topic against the overall estimate; any exception becomes an HTTPException
get_user_ability(records) ==
    IF records = << >>
    THEN [kind |-> "return", overall_ability |-> INITIAL_ABILITY,
          topic_abilities |-> << >>, questions_answered |-> 0]
    ELSE LET overall == OverallEstimate(records)
         IN  IF overall.kind = "raise"
                \/ \E t \in TopicsOf(records) :
                      TopicEstimate(records, t, overall.value).kind = "raise"
             THEN Raised("HTTPException")
             ELSE [kind |-> "return", overall_ability |-> overall.value,
                   topic_abilities |->
                       [t \in TopicsOf(records) |->
                           TopicEntry(records, t, overall.value)],
                   questions_answered |-> Len(RecordResponses(records))]

\* Mutant of TopicAbility: a topic without history keeps the initial 0.0.
TopicAbilityInitial(user_ability_response, topic) ==
    IF topic \in DOMAIN user_ability_response.topic_abilities
    THEN user_ability_response.topic_abilities[topic].ability
    ELSE 0

\* the ability recommend_difficulty extracts: the topic's own, else the overall one
TopicAbility(user_ability_response, topic) ==
    IF topic \in DOMAIN user_ability_response.topic_abilities
    THEN user_ability_response.topic_abilities[topic].ability
    ELSE user_ability_response.overall_ability

\* Mutant of TargetDifficulty: the challenge offset is applied with the wrong sign.
TargetDifficultyEasier(topic_ability, challenge_mode) ==
    IF challenge_mode THEN topic_ability - ChallengeBonus ELSE topic_ability

\* Mutant of TargetDifficulty: challenge mode asks for one whole tier more.
TargetDifficultyNextTier(topic_ability, challenge_mode) ==
    IF challenge_mode THEN topic_ability + Scale ELSE topic_ability

\* if challenge_mode: topic_ability += 0.5; target_difficulty = topic_ability
TargetDifficulty(topic_ability, challenge_mode) ==
    IF challenge_mode THEN topic_ability + ChallengeBonus ELSE topic_ability

\* the dictionary recommend_difficulty returns for one answer of get_user_ability
Recommendation(user_ability_response, topic, challenge_mode) ==
    LET target_difficulty ==
            TargetDifficulty(TopicAbility(user_ability_response, topic), challenge_mode)
    IN  [kind |-> "return", topic |-> topic,
         difficulty_level |-> irt_to_difficulty_level(target_difficulty),
         estimated_ability |-> target_difficulty,
         challenge_mode |-> challenge_mode]

\* recommend_difficulty as a function of the stored rows and its query parameters
recommend_difficulty(records, topic, challenge_mode) ==
    LET user_ability_response == get_user_ability(records)
    IN  IF user_ability_response.kind = "raise"
        THEN Raised("HTTPException")
        ELSE Recommendation(user_ability_response, topic, challenge_mode)

----------------------------------------------------------------------------
(* get_question_difficulty *)

\* tenths of 1.0, for the float literals 0.2, 0.4, 0.6, 0.8 and 1.5
Tenths(k) == k * (Scale \div 10)

\* responses = [1 if answer.get("correct", False) else 0 for answer in response.data]
AnswerResponses(answers) == [i \in 1..Len(answers) |-> IF answers[i] THEN 1 ELSE 0]

\* success_rate = sum(responses) / response_count if response_count > 0 else 0
SuccessRate(responses) ==
    IF Len(responses) > 0 THEN RDiv(SumSeq(responses) * Scale, Len(responses)) ELSE 0

\* the if/elif chain from the success rate to the latent difficulty
RateDifficulty(success_rate) ==
    IF success_rate < Tenths(2) THEN Tenths(15)
    ELSE IF success_rate < Tenths(4) THEN Tenths(8)
    ELSE IF success_rate < Tenths(6) THEN 0
    ELSE IF success_rate < Tenths(8) THEN -Tenths(8)
    ELSE -Tenths(15)

\* get_question_difficulty as a function of the recorded answers of the question
get_question_difficulty(answers) ==
    IF answers = << >>
    THEN [kind |-> "return", difficulty |-> 0, difficulty_level |-> 3,
          response_count |-> 0, success_rate |-> 0]
    ELSE LET responses == AnswerResponses(answers)
             success_rate == SuccessRate(responses)
             question_difficulty == RateDifficulty(success_rate)
         IN  [kind |-> "return", difficulty |-> question_difficulty,
              difficulty_level |-> irt_to_difficulty_level(question_difficulty),
              response_count |-> Len(responses), success_rate |-> success_rate]

----------------------------------------------------------------------------
(* generate_sat_question (main.py) *)

RaisedHTTP(status_code) ==
    [kind |-> "raise", exception |-> "HTTPException", status_code |-> status_code]

\* How one pass of the loop body can end: the question validates and the insert
\* returns its row ("inserted"); the parser or a validator of SATQuestion raises
\* ValueError; the insert returns no data, HTTPException; anything else (the
\* model's API, the database client, a row without "id") raises another exception.
Retryable == {"ValueError", "HTTPException"}

AttemptOutcomes == {"inserted", "error"} \cup Retryable

\* the ids the database gives to an inserted question
QuestionIds == {"q1", "q2"}

\* Mutant of LastAttempt: the last pass is looked for one index too late.
LastAttemptLate(attempt, max_retries) == attempt = max_retries

\* if attempt == max_retries - 1
LastAttempt(attempt, max_retries) == attempt = max_retries - 1

\* question_data at the return: difficulty_level and question_id added
QuestionData(difficulty_level, inserted_id) ==
    [kind |-> "return", difficulty_level |-> difficulty_level,
     question_id |-> inserted_id]

----------------------------------------------------------------------------
(* submit_answer and update_leaderboard_entry (main.py) *)

\* leaderboards holds no row of the user
NoRow == [user_id |-> "none"]

\* progress_response.data: the rows of user_progress with .eq("user_id", user_id)
ProgressOf(table, user_id) == SelectSeq(table, LAMBDA record : record.user_id = user_id)

\* the row update_leaderboard_entry upserts; accuracy and avg_difficulty are
\* floats, in thousandths
LeaderboardEntry(table, boards, user_id) ==
    LET data == ProgressOf(table, user_id)
        total_questions == Len(data)
        correct_answers == Len(SelectSeq(data, LAMBDA record : record.correct))
        difficulty_sum ==
            SumSeq([i \in 1..Len(data) |-> data[i].difficulty_level])
        points ==
            SumSeq([i \in 1..Len(data) |->
                       IF data[i].correct THEN data[i].difficulty_level * 10 ELSE 0])
        accuracy ==
            IF total_questions > 0
            THEN RDiv(correct_answers * 100 * Scale, total_questions)
            ELSE 0
        avg_difficulty ==
            IF total_questions > 0 THEN RDiv(difficulty_sum * Scale, total_questions)
            ELSE 0
        email == IF boards[user_id] # NoRow THEN boards[user_id].email ELSE "Anonymous"
    IN  [user_id |-> user_id, email |-> email, total_questions |-> total_questions,
         correct_answers |-> correct_answers, accuracy |-> accuracy,
         avg_difficulty |-> avg_difficulty, total_points |-> points]

\* .upsert(row): the row replaces the one of the same user_id
Upsert(boards, row) == [boards EXCEPT ![row.user_id] = row]

\* update_leaderboard_entry(user_id) run to its end on the tables
UpdateLeaderboard(table, boards, user_id) ==
    Upsert(boards, LeaderboardEntry(table, boards, user_id))

\* The tasks of a response run after it is sent, in the order they were added.
RECURSIVE RunTasks(_, _, _)
RunTasks(tasks, table, boards) ==
    IF tasks = << >> THEN boards
    ELSE RunTasks(Tail(tasks), table, UpdateLeaderboard(table, boards, Head(tasks).user_id))

\* Mutant of ResponseBackground: the tasks added in the handler go with the response.
ResponseBackgroundAttached(tasks) == tasks

\* The tasks that go with the response of submit_answer: the handler returns a
\* dict, and its BackgroundTasks object is a local one that is neither a
\* parameter of the handler nor a part of what it returns.
ResponseBackground(tasks) == << >>

----------------------------------------------------------------------------
(* The calls the model makes *)

MaxLen == 2

MaxN == 10

MaxIterSmall == 3

MaxRecords == 2

MaxAnswers == 6

HugeDisc == 40 * Scale

Levels == {-2 * Scale, -Scale, 0, Scale, 2 * Scale}

\* sequences over S of length exactly n
RECURSIVE SeqsOfLen(_, _)
SeqsOfLen(S, n) ==
    IF n = 0 THEN {<< >>}
    ELSE {Append(s, x) : s \in SeqsOfLen(S, n - 1), x \in S}

\* k correct answers followed by n - k incorrect ones
CorrectFirst(k, n) == [i \in 1..n |-> IF i <= k THEN 1 ELSE 0]

Constant(v, n) == [i \in 1..n |-> v]

\* the discriminations argument: None, or a list as long as the other list
DiscChoices(n) ==
    {[none |-> TRUE, list |-> << >>]}
    \cup {[none |-> FALSE, list |-> Constant(d, n)] : d \in {2 * Scale, HugeDisc}}

\* the keyword arguments tried with the short lists: priors inside and outside
\* [-3, 3], prior weights, and iteration limits below and above the safety limit
AbilityOptions ==
    { [prior_ability |-> pa, prior_weight |-> pw, max_iter |-> mi] :
        pa \in {-4 * Scale, INITIAL_ABILITY, 5 * Scale},
        pw \in {0, Scale},
        mi \in {0, MaxIterSmall, SafeIterationLimit + 2} }

\* every response list of length n with every list of n difficulties (the callers
\* pass one difficulty, and one discrimination if any, per response)
ShortAbilityArgs(n) ==
    { [responses |-> r, difficulties |-> d,
       discriminations_none |-> dc.none, discriminations |-> dc.list,
       guess |-> DefaultGuess, prior_ability |-> o.prior_ability,
       prior_weight |-> o.prior_weight, max_iter |-> o.max_iter,
       tolerance |-> DefaultTolerance] :
        r \in SeqsOfLen({0, 1}, n),
        d \in SeqsOfLen({-Scale, 0, 2 * Scale}, n),
        dc \in DiscChoices(n),
        o \in AbilityOptions }

\* a tolerance that Newton steps shorter than the step limit can meet
CoarseTolerance == 3 * (Scale \div 10)

\* n responses at one common difficulty, k of them correct, with prior weights of
\* either sign, the default and a coarse tolerance, everything else default
CommonAbilityArgs(n) ==
    { [responses |-> CorrectFirst(k, n), difficulties |-> Constant(d, n),
       discriminations_none |-> TRUE, discriminations |-> << >>,
       guess |-> DefaultGuess, prior_ability |-> INITIAL_ABILITY, prior_weight |-> pw,
       max_iter |-> DefaultMaxIter, tolerance |-> tol] :
        k \in 0..n, d \in Levels, pw \in {-2 * Scale, 0, Scale},
        tol \in {DefaultTolerance, CoarseTolerance} }

\* n responses to steep items (discrimination 4.0) at difficulty 0.0, k of them
\* correct: the curvature of the data alone exceeds the confidence cap
SteepAbilityArgs(n) ==
    { [responses |-> CorrectFirst(k, n), difficulties |-> Constant(0, n),
       discriminations_none |-> FALSE, discriminations |-> Constant(4 * Scale, n),
       guess |-> DefaultGuess, prior_ability |-> INITIAL_ABILITY,
       prior_weight |-> Scale, max_iter |-> DefaultMaxIter, tolerance |-> tol] :
        k \in 0..n, tol \in {DefaultTolerance, CoarseTolerance} }

AbilityArgs ==
    UNION {ShortAbilityArgs(n) : n \in 0..MaxLen}
    \cup UNION {CommonAbilityArgs(n) : n \in (MaxLen + 1)..MaxN}
    \cup UNION {SteepAbilityArgs(n) : n \in (MaxLen + 1)..MaxN}

\* response lists of length n against ability lists of length m
DifficultyArgsOfLen(n, m) ==
    { [responses |-> r, abilities |-> ab,
       discriminations_none |-> dc.none, discriminations |-> dc.list,
       guess |-> DefaultGuess, prior_difficulty |-> pd, prior_weight |-> pw,
       max_iter |-> mi, tolerance |-> DefaultTolerance] :
        r \in SeqsOfLen({0, 1}, n),
        ab \in SeqsOfLen({-Scale, 3 * Scale}, m),
        dc \in DiscChoices(m),
        pd \in {-Scale, 0},
        pw \in {0, Scale},
        mi \in {0, MaxIterSmall, DefaultMaxIter} }

DifficultyArgs ==
    UNION {DifficultyArgsOfLen(n, m) : n \in 0..MaxLen, m \in 0..MaxLen}

ProbabilityArgs ==
    { [ability |-> th, difficulty |-> b, discrimination |-> disc, guess |-> g] :
        th \in {-3 * Scale, 0, 3 * Scale}, b \in Levels,
        disc \in {Scale, 2 * Scale, HugeDisc}, g \in {0, DefaultGuess} }

ToLevelArgs ==
    { [irt_difficulty |-> x] :
        x \in {k * (Scale \div 4) : k \in -8..8} \cup {-FloatMax, FloatMax} }

ToIrtArgs == { [level |-> l] : l \in (-1..7) \cup {NoneLevel} }

Topics == {"Algebra", "Geometry"}

\* the user_progress rows of one user
ProgressRecords ==
    [topic : Topics, correct : BOOLEAN, difficulty_level : {1, 3, 5}]

\* the `correct` flags of the user_progress rows of one question
QuestionArgs ==
    { [answers |-> a] : a \in UNION {SeqsOfLen(BOOLEAN, n) : n \in 0..MaxAnswers} }

UserAbilityCallArgs ==
    { [records |-> r] :
        r \in UNION {SeqsOfLen(ProgressRecords, n) : n \in 0..MaxRecords} }

RecommendArgs ==
    { [records |-> r, topic |-> t, challenge_mode |-> c] :
        r \in UNION {SeqsOfLen(ProgressRecords, n) : n \in 0..MaxRecords},
        t \in Topics, c \in BOOLEAN }

\* the largest max_retries a call is made with
MaxRetries == 3

GenerateArgs ==
    { [topic |-> t, difficulty_level |-> l, max_retries |-> r] :
        t \in {"Algebra", "Reading Comprehension"}, l \in {1, 3, 5},
        r \in 0..MaxRetries }

Users == {"u1", "u2"}

\* the largest number of rows user_progress holds before the call
MaxRows == 2

\* the columns of user_progress that update_leaderboard_entry selects
ProgressRows == [user_id : Users, correct : BOOLEAN, difficulty_level : {1, 5}]

ProgressTables == UNION {SeqsOfLen(ProgressRows, n) : n \in 0..MaxRows}

\* a row written before the rows of user_progress were
StaleRow(user_id) ==
    [user_id |-> user_id, email |-> "u@example.com", total_questions |-> 0,
     correct_answers |-> 0, accuracy |-> 0, avg_difficulty |-> 0, total_points |-> 0]

LeaderboardTables ==
    {[u \in Users |-> NoRow], [u \in Users |-> IF u = "u1" THEN StaleRow(u) ELSE NoRow]}

SubmitArgs ==
    { [answer |-> a, user_progress |-> t, leaderboards |-> b] :
        a \in ProgressRows, t \in ProgressTables, b \in LeaderboardTables }

LeaderboardArgs ==
    { [user_id |-> u, user_progress |-> t, leaderboards |-> b] :
        u \in Users, t \in ProgressTables, b \in LeaderboardTables }

Calls ==
    {[op |-> "estimate_ability", args |-> a] : a \in AbilityArgs}
    \cup {[op |-> "estimate_question_difficulty", args |-> a] : a \in DifficultyArgs}
    \cup {[op |-> "calculate_success_probability", args |-> a] : a \in ProbabilityArgs}
    \cup {[op |-> "irt_to_difficulty_level", args |-> a] : a \in ToLevelArgs}
    \cup {[op |-> "difficulty_level_to_irt", args |-> a] : a \in ToIrtArgs}
    \cup {[op |-> "recommend_difficulty", args |-> a] : a \in RecommendArgs}
    \cup {[op |-> "get_user_ability", args |-> a] : a \in UserAbilityCallArgs}
    \cup {[op |-> "get_question_difficulty", args |-> a] : a \in QuestionArgs}
    \cup {[op |-> "generate_sat_question", args |-> a] : a \in GenerateArgs}
    \cup {[op |-> "submit_answer", args |-> a] : a \in SubmitArgs}
    \cup {[op |-> "update_leaderboard_entry", args |-> a] : a \in LeaderboardArgs}

----------------------------------------------------------------------------
(* The state machine: one call, from entry to its return or its exception *)

InLeaderboard == op \in {"submit_answer", "update_leaderboard_entry"}

\* the tables as the call finds them
InitialProgress == IF InLeaderboard THEN args.user_progress ELSE << >>

InitialLeaderboards == IF InLeaderboard THEN args.leaderboards ELSE << >>

Init ==
    /\ \E c \in Calls : op = c.op /\ args = c.args
    /\ pc = "call"
    /\ ability = Unbound
    /\ simple_ability = Unbound
    /\ difficulty = Unbound
    /\ hessian = Unbound
    /\ safe_iterations = 0
    /\ iter = 0
    /\ overall_ability = Unbound
    /\ topic_abilities = << >>
    /\ estimator_calls = << >>
    /\ attempts = << >>
    /\ user_progress = InitialProgress
    /\ leaderboards = InitialLeaderboards
    /\ background_tasks = << >>
    /\ steps = 0
    /\ path = "none"
    /\ result = NoResult

InAbility == op = "estimate_ability"

InDifficulty == op = "estimate_question_difficulty"

InRecommend == op = "recommend_difficulty"

InUserAbility == op = "get_user_ability"

InQuestion == op = "get_question_difficulty"

InGenerate == op = "generate_sat_question"

InSubmit == op = "submit_answer"

InUpdateLeaderboard == op = "update_leaderboard_entry"

\* get_user_ability runs as a request of its own and inside recommend_difficulty
Fetching == InUserAbility \/ InRecommend

\* Mutant of AbilityEmpty: the early return clamps the prior like every other return.
AbilityEmptyClamped ==
    /\ InAbility /\ pc = "call"
    /\ args.responses = << >>
    /\ path' = "empty"
    /\ result' = Returned(Clamp(args.prior_ability, -AbilityLimit, AbilityLimit), 0)
    /\ pc' = "returned"
    /\ UNCHANGED <<op, args, attempts, user_progress, leaderboards,
                   background_tasks, estimator_calls, overall_ability,
                   topic_abilities, ability, simple_ability, difficulty,
                   hessian, safe_iterations, iter, steps>>

\* if not responses: return prior_ability, 0.0
AbilityEmpty ==
    /\ InAbility /\ pc = "call"
    /\ args.responses = << >>
    /\ path' = "empty"
    /\ result' = Returned(args.prior_ability, 0)
    /\ pc' = "returned"
    /\ UNCHANGED <<op, args, attempts, user_progress, leaderboards,
                   background_tasks, estimator_calls, overall_ability,
                   topic_abilities, ability, simple_ability, difficulty,
                   hessian, safe_iterations, iter, steps>>

\* the seed, and safe_iterations = 0
AbilityBegin ==
    /\ InAbility /\ pc = "call"
    /\ args.responses # << >>
    /\ simple_ability' = SimpleAbility(args.responses)
    /\ ability' = Seed(args)
    /\ safe_iterations' = 0
    /\ pc' = "loop"
    /\ UNCHANGED <<op, args, attempts, user_progress, leaderboards,
                   background_tasks, estimator_calls, overall_ability,
                   topic_abilities, difficulty, hessian, iter, steps, path,
                   result>>

\* range(max_iter) is exhausted
AbilityLoopEnd ==
    /\ InAbility /\ pc = "loop"
    /\ iter >= args.max_iter
    /\ pc' = "after"
    /\ UNCHANGED <<op, args, attempts, user_progress, leaderboards,
                   background_tasks, estimator_calls, overall_ability,
                   topic_abilities, ability, simple_ability, difficulty,
                   hessian, safe_iterations, iter, steps, path, result>>

\* safe_iterations += 1; if safe_iterations > 10: break
AbilitySafetyBreak ==
    /\ InAbility /\ pc = "loop"
    /\ iter < args.max_iter
    /\ safe_iterations + 1 > SafeIterationLimit
    /\ safe_iterations' = safe_iterations + 1
    /\ iter' = iter + 1
    /\ pc' = "after"
    /\ UNCHANGED <<op, args, attempts, user_progress, leaderboards,
                   background_tasks, estimator_calls, overall_ability,
                   topic_abilities, ability, simple_ability, difficulty,
                   hessian, steps, path, result>>

\* one pass of the try block that completes
AbilityStep ==
    /\ InAbility /\ pc = "loop"
    /\ iter < args.max_iter
    /\ safe_iterations + 1 <= SafeIterationLimit
    /\ ~AbilityHessianRaises(args)
    /\ safe_iterations' = safe_iterations + 1
    /\ iter' = iter + 1
    /\ steps' = steps + 1
    /\ hessian' = AbilityHessian(ability, args)
    /\ ability' = AbilityNew(ability, args)
    /\ pc' = IF AbilityConverged(ability, args) THEN "after" ELSE "loop"
    /\ UNCHANGED <<op, args, attempts, user_progress, leaderboards,
                   background_tasks, estimator_calls, overall_ability,
                   topic_abilities, simple_ability, difficulty, path, result>>

\* one pass of the try block that raises: except Exception: return simple_ability, 0.5
AbilityFallback ==
    /\ InAbility /\ pc = "loop"
    /\ iter < args.max_iter
    /\ safe_iterations + 1 <= SafeIterationLimit
    /\ AbilityHessianRaises(args)
    /\ safe_iterations' = safe_iterations + 1
    /\ iter' = iter + 1
    /\ path' = "except"
    /\ result' = AbilityFallbackResult(args)
    /\ pc' = "returned"
    /\ UNCHANGED <<op, args, attempts, user_progress, leaderboards,
                   background_tasks, estimator_calls, overall_ability,
                   topic_abilities, ability, simple_ability, difficulty,
                   hessian, steps>>

\* after the loop: confidence, the final sanity clamp, return ability, confidence
AbilityReturn ==
    /\ InAbility /\ pc = "after"
    /\ hessian # Unbound
    /\ path' = "final"
    /\ result' = AbilityFinalResult(ability, hessian)
    /\ pc' = "returned"
    /\ UNCHANGED <<op, args, attempts, user_progress, leaderboards,
                   background_tasks, estimator_calls, overall_ability,
                   topic_abilities, ability, simple_ability, difficulty,
                   hessian, safe_iterations, iter, steps>>

\* after a loop that never ran its body: min(abs(hessian), 10.0) reads an unbound local
AbilityUnbound ==
    /\ InAbility /\ pc = "after"
    /\ hessian = Unbound
    /\ path' = "raise"
    /\ result' = Raised("UnboundLocalError")
    /\ pc' = "raised"
    /\ UNCHANGED <<op, args, attempts, user_progress, leaderboards,
                   background_tasks, estimator_calls, overall_ability,
                   topic_abilities, ability, simple_ability, difficulty,
                   hessian, safe_iterations, iter, steps>>

\* if not responses or not abilities: return prior_difficulty, 0.0
DifficultyEmpty ==
    /\ InDifficulty /\ pc = "call"
    /\ args.responses = << >> \/ args.abilities = << >>
    /\ path' = "empty"
    /\ result' = Returned(args.prior_difficulty, 0)
    /\ pc' = "returned"
    /\ UNCHANGED <<op, args, attempts, user_progress, leaderboards,
                   background_tasks, estimator_calls, overall_ability,
                   topic_abilities, ability, simple_ability, difficulty,
                   hessian, safe_iterations, iter, steps>>

\* difficulty = prior_difficulty
DifficultyBegin ==
    /\ InDifficulty /\ pc = "call"
    /\ args.responses # << >> /\ args.abilities # << >>
    /\ difficulty' = args.prior_difficulty
    /\ pc' = "loop"
    /\ UNCHANGED <<op, args, attempts, user_progress, leaderboards,
                   background_tasks, estimator_calls, overall_ability,
                   topic_abilities, ability, simple_ability, hessian,
                   safe_iterations, iter, steps, path, result>>

\* range(max_iter) is exhausted
DifficultyLoopEnd ==
    /\ InDifficulty /\ pc = "loop"
    /\ iter >= args.max_iter
    /\ pc' = "after"
    /\ UNCHANGED <<op, args, attempts, user_progress, leaderboards,
                   background_tasks, estimator_calls, overall_ability,
                   topic_abilities, ability, simple_ability, difficulty,
                   hessian, safe_iterations, iter, steps, path, result>>

\* one pass of the loop body
DifficultyStep ==
    /\ InDifficulty /\ pc = "loop"
    /\ iter < args.max_iter
    /\ ~DifficultyHessianRaises(args)
    /\ iter' = iter + 1
    /\ steps' = steps + 1
    /\ hessian' = DifficultyHessian(difficulty, args)
    /\ difficulty' = DifficultyNew(difficulty, args)
    /\ pc' = IF DifficultyConverged(difficulty, args) THEN "after" ELSE "loop"
    /\ UNCHANGED <<op, args, attempts, user_progress, leaderboards,
                   background_tasks, estimator_calls, overall_ability,
                   topic_abilities, ability, simple_ability, safe_iterations,
                   path, result>>

\* one pass of the loop body in which disc**2 raises: nothing catches it
DifficultyOverflow ==
    /\ InDifficulty /\ pc = "loop"
    /\ iter < args.max_iter
    /\ DifficultyHessianRaises(args)
    /\ iter' = iter + 1
    /\ path' = "raise"
    /\ result' = Raised("OverflowError")
    /\ pc' = "raised"
    /\ UNCHANGED <<op, args, attempts, user_progress, leaderboards,
                   background_tasks, estimator_calls, overall_ability,
                   topic_abilities, ability, simple_ability, difficulty,
                   hessian, safe_iterations, steps>>

\* confidence = abs(hessian); return difficulty, confidence
DifficultyReturn ==
    /\ InDifficulty /\ pc = "after"
    /\ hessian # Unbound
    /\ path' = "final"
    /\ result' = Returned(difficulty, Abs(hessian))
    /\ pc' = "returned"
    /\ UNCHANGED <<op, args, attempts, user_progress, leaderboards,
                   background_tasks, estimator_calls, overall_ability,
                   topic_abilities, ability, simple_ability, difficulty,
                   hessian, safe_iterations, iter, steps>>

\* after a loop that never ran its body: abs(hessian) reads an unbound local
DifficultyUnbound ==
    /\ InDifficulty /\ pc = "after"
    /\ hessian = Unbound
    /\ path' = "raise"
    /\ result' = Raised("UnboundLocalError")
    /\ pc' = "raised"
    /\ UNCHANGED <<op, args, attempts, user_progress, leaderboards,
                   background_tasks, estimator_calls, overall_ability,
                   topic_abilities, ability, simple_ability, difficulty,
                   hessian, safe_iterations, iter, steps>>

\* calculate_success_probability: return p
ProbabilityCall ==
    /\ op = "calculate_success_probability" /\ pc = "call"
    /\ path' = "final"
    /\ result' = ReturnedValue(calculate_success_probability(
                      args.ability, args.difficulty, args.discrimination, args.guess))
    /\ pc' = "returned"
    /\ UNCHANGED <<op, args, attempts, user_progress, leaderboards,
                   background_tasks, estimator_calls, overall_ability,
                   topic_abilities, ability, simple_ability, difficulty,
                   hessian, safe_iterations, iter, steps>>

\* irt_to_difficulty_level: return the tier
ToLevelCall ==
    /\ op = "irt_to_difficulty_level" /\ pc = "call"
    /\ path' = "final"
    /\ result' = ReturnedValue(irt_to_difficulty_level(args.irt_difficulty))
    /\ pc' = "returned"
    /\ UNCHANGED <<op, args, attempts, user_progress, leaderboards,
                   background_tasks, estimator_calls, overall_ability,
                   topic_abilities, ability, simple_ability, difficulty,
                   hessian, safe_iterations, iter, steps>>

\* difficulty_level_to_irt: return mapping.get(level, 0.0)
ToIrtCall ==
    /\ op = "difficulty_level_to_irt" /\ pc = "call"
    /\ path' = "final"
    /\ result' = ReturnedValue(difficulty_level_to_irt(args.level))
    /\ pc' = "returned"
    /\ UNCHANGED <<op, args, attempts, user_progress, leaderboards,
                   background_tasks, estimator_calls, overall_ability,
                   topic_abilities, ability, simple_ability, difficulty,
                   hessian, safe_iterations, iter, steps>>

\* the user_progress query raises: both handlers answer with HTTPException(500)
RecommendError ==
    /\ Fetching /\ pc = "call"
    /\ path' = "raise"
    /\ result' = Raised("HTTPException")
    /\ pc' = "raised"
    /\ UNCHANGED <<op, args, attempts, user_progress, leaderboards,
                   background_tasks, ability, simple_ability, difficulty,
                   hessian, safe_iterations, iter, overall_ability,
                   topic_abilities, estimator_calls, steps>>

\* get_user_ability: if not response.data, INITIAL_ABILITY and no topic abilities
UserAbilityNoData ==
    /\ Fetching /\ pc = "call"
    /\ args.records = << >>
    /\ overall_ability' = INITIAL_ABILITY
    /\ topic_abilities' = << >>
    /\ pc' = "fetched"
    /\ UNCHANGED <<op, args, attempts, user_progress, leaderboards,
                   background_tasks, ability, simple_ability, difficulty,
                   hessian, safe_iterations, iter, estimator_calls, steps,
                   path, result>>

\* get_user_ability: the rows are collected and the overall ability is estimated
UserAbilityOverall ==
    /\ Fetching /\ pc = "call"
    /\ args.records # << >>
    /\ LET call == UserAbilityArgs(args.records, INITIAL_ABILITY)
       IN  /\ estimator_calls' = Append(estimator_calls, call)
           /\ overall_ability' = EstimateAbility(call).value
    /\ pc' = "overall"
    /\ UNCHANGED <<op, args, attempts, user_progress, leaderboards,
                   background_tasks, ability, simple_ability, difficulty,
                   hessian, safe_iterations, iter, topic_abilities, steps,
                   path, result>>

\* get_user_ability: one pass of `for topic, data in questions_by_topic.items()`:
\* an estimate of the next topic with the overall ability as its prior
UserAbilityTopic ==
    /\ Fetching /\ pc = "overall"
    /\ LET order == TopicOrder(args.records)
           topic == order[Len(estimator_calls)]
           call == UserAbilityArgs(TopicRecords(args.records, topic), overall_ability)
       IN  /\ estimator_calls' = Append(estimator_calls, call)
           /\ topic_abilities' =
                  [t \in DOMAIN topic_abilities \cup {topic} |->
                      IF t = topic
                      THEN [ability |-> EstimateAbility(call).value,
                            confidence |-> EstimateAbility(call).confidence,
                            question_count |-> Len(call.responses)]
                      ELSE topic_abilities[t]]
           /\ pc' = IF Len(estimator_calls) = Len(order) THEN "fetched" ELSE "overall"
    /\ UNCHANGED <<op, args, attempts, user_progress, leaderboards,
                   background_tasks, ability, simple_ability, difficulty,
                   hessian, safe_iterations, iter, overall_ability, steps,
                   path, result>>

\* get_user_ability: the dictionary it returns
UserAbilityReturn ==
    /\ InUserAbility /\ pc = "fetched"
    /\ path' = "final"
    /\ result' = [kind |-> "return", overall_ability |-> overall_ability,
                  topic_abilities |-> topic_abilities,
                  questions_answered |-> Len(RecordResponses(args.records))]
    /\ pc' = "returned"
    /\ UNCHANGED <<op, args, attempts, user_progress, leaderboards,
                   background_tasks, ability, simple_ability, difficulty,
                   hessian, safe_iterations, iter, overall_ability,
                   topic_abilities, estimator_calls, steps>>

\* recommend_difficulty, after get_user_ability has returned
RecommendReturn ==
    /\ InRecommend /\ pc = "fetched"
    /\ path' = "final"
    /\ result' = Recommendation(
                      [overall_ability |-> overall_ability,
                       topic_abilities |-> topic_abilities],
                      args.topic, args.challenge_mode)
    /\ pc' = "returned"
    /\ UNCHANGED <<op, args, attempts, user_progress, leaderboards,
                   background_tasks, ability, simple_ability, difficulty,
                   hessian, safe_iterations, iter, overall_ability,
                   topic_abilities, estimator_calls, steps>>

\* get_question_difficulty: the user_progress query raises, HTTPException(500)
QuestionError ==
    /\ InQuestion /\ pc = "call"
    /\ path' = "raise"
    /\ result' = Raised("HTTPException")
    /\ pc' = "raised"
    /\ UNCHANGED <<op, args, attempts, user_progress, leaderboards,
                   background_tasks, ability, simple_ability, difficulty,
                   hessian, safe_iterations, iter, overall_ability,
                   topic_abilities, estimator_calls, steps>>

\* get_question_difficulty: if not response.data, the neutral answer
QuestionNoData ==
    /\ InQuestion /\ pc = "call"
    /\ args.answers = << >>
    /\ path' = "empty"
    /\ result' = get_question_difficulty(args.answers)
    /\ pc' = "returned"
    /\ UNCHANGED <<op, args, attempts, user_progress, leaderboards,
                   background_tasks, ability, simple_ability, difficulty,
                   hessian, safe_iterations, iter, overall_ability,
                   topic_abilities, estimator_calls, steps>>

\* get_question_difficulty: the success rate, its difficulty and the level
QuestionClassify ==
    /\ InQuestion /\ pc = "call"
    /\ args.answers # << >>
    /\ path' = "final"
    /\ result' = get_question_difficulty(args.answers)
    /\ pc' = "returned"
    /\ UNCHANGED <<op, args, attempts, user_progress, leaderboards,
                   background_tasks, ability, simple_ability, difficulty,
                   hessian, safe_iterations, iter, overall_ability,
                   topic_abilities, estimator_calls, steps>>

\* generate_sat_question: the loop is at `for attempt in range(max_retries)`
AtAttempt == InGenerate /\ pc \in {"call", "retry"}

\* generate_sat_question: a pass of the loop validates and inserts the question,
\* return question_data
GenerateInserted ==
    /\ AtAttempt
    /\ Len(attempts) < args.max_retries
    /\ attempts' = Append(attempts, "inserted")
    /\ \E inserted_id \in QuestionIds :
          result' = QuestionData(args.difficulty_level, inserted_id)
    /\ path' = "final"
    /\ pc' = "returned"
    /\ UNCHANGED <<op, args, user_progress, leaderboards, background_tasks,
                   ability, simple_ability, difficulty, hessian,
                   safe_iterations, iter, overall_ability, topic_abilities,
                   estimator_calls, steps>>

\* generate_sat_question: a pass raises ValueError or HTTPException and is not
\* the last one, "Retrying..."
GenerateRetry ==
    /\ AtAttempt
    /\ Len(attempts) < args.max_retries
    /\ ~LastAttempt(Len(attempts), args.max_retries)
    /\ \E e \in Retryable : attempts' = Append(attempts, e)
    /\ pc' = "retry"
    /\ UNCHANGED <<path, result>>
    /\ UNCHANGED <<op, args, user_progress, leaderboards, background_tasks,
                   ability, simple_ability, difficulty, hessian,
                   safe_iterations, iter, overall_ability, topic_abilities,
                   estimator_calls, steps>>

\* generate_sat_question: the last pass raises ValueError or HTTPException,
\* raise HTTPException(status_code=500)
GenerateGiveUp ==
    /\ AtAttempt
    /\ Len(attempts) < args.max_retries
    /\ LastAttempt(Len(attempts), args.max_retries)
    /\ \E e \in Retryable : attempts' = Append(attempts, e)
    /\ path' = "except"
    /\ result' = RaisedHTTP(500)
    /\ pc' = "raised"
    /\ UNCHANGED <<op, args, user_progress, leaderboards, background_tasks,
                   ability, simple_ability, difficulty, hessian,
                   safe_iterations, iter, overall_ability, topic_abilities,
                   estimator_calls, steps>>

\* generate_sat_question: a pass raises an exception the except clause does not
\* name, which leaves the function
GenerateError ==
    /\ AtAttempt
    /\ Len(attempts) < args.max_retries
    /\ attempts' = Append(attempts, "error")
    /\ path' = "raise"
    /\ result' = Raised("Exception")
    /\ pc' = "raised"
    /\ UNCHANGED <<op, args, user_progress, leaderboards, background_tasks,
                   ability, simple_ability, difficulty, hessian,
                   safe_iterations, iter, overall_ability, topic_abilities,
                   estimator_calls, steps>>

\* generate_sat_question: range(max_retries) is used up and the function ends
\* without a return statement, None
GenerateExhausted ==
    /\ AtAttempt
    /\ Len(attempts) >= args.max_retries
    /\ path' = "empty"
    /\ result' = ReturnedValue("None")
    /\ pc' = "returned"
    /\ UNCHANGED attempts
    /\ UNCHANGED <<op, args, user_progress, leaderboards, background_tasks,
                   ability, simple_ability, difficulty, hessian,
                   safe_iterations, iter, overall_ability, topic_abilities,
                   estimator_calls, steps>>

\* submit_answer: the insert into user_progress stores the answer
SubmitStore ==
    /\ InSubmit /\ pc = "call"
    /\ user_progress' = Append(user_progress, args.answer)
    /\ pc' = "stored"
    /\ UNCHANGED <<leaderboards, background_tasks, path, result>>
    /\ UNCHANGED <<op, args, attempts, ability, simple_ability, difficulty,
                   hessian, safe_iterations, iter, overall_ability,
                   topic_abilities, estimator_calls, steps>>

\* submit_answer: the insert raises, or answers with an error (HTTPException(500),
\* raised inside the try block); `except Exception` turns both into
\* HTTPException(400)
SubmitReject ==
    /\ InSubmit /\ pc = "call"
    /\ path' = "except"
    /\ result' = RaisedHTTP(400)
    /\ pc' = "raised"
    /\ UNCHANGED <<user_progress, leaderboards, background_tasks>>
    /\ UNCHANGED <<op, args, attempts, ability, simple_ability, difficulty,
                   hessian, safe_iterations, iter, overall_ability,
                   topic_abilities, estimator_calls, steps>>

\* submit_answer: background_tasks = BackgroundTasks(), then
\* background_tasks.add_task(update_leaderboard_entry, answer.user_id)
SubmitAddTask ==
    /\ InSubmit /\ pc = "stored"
    /\ background_tasks' =
          Append(background_tasks,
                 [func |-> "update_leaderboard_entry", user_id |-> args.answer.user_id])
    /\ pc' = "queued"
    /\ UNCHANGED <<user_progress, leaderboards, path, result>>
    /\ UNCHANGED <<op, args, attempts, ability, simple_ability, difficulty,
                   hessian, safe_iterations, iter, overall_ability,
                   topic_abilities, estimator_calls, steps>>

\* submit_answer: return {"message": "Answer recorded successfully!"}
SubmitReturn ==
    /\ InSubmit /\ pc = "queued"
    /\ path' = "final"
    /\ result' = [kind |-> "return", value |-> "Answer recorded successfully!",
                  background |-> ResponseBackground(background_tasks)]
    /\ pc' = "returned"
    /\ UNCHANGED <<user_progress, leaderboards, background_tasks>>
    /\ UNCHANGED <<op, args, attempts, ability, simple_ability, difficulty,
                   hessian, safe_iterations, iter, overall_ability,
                   topic_abilities, estimator_calls, steps>>

\* the response of submit_answer is sent, and the tasks that go with it are run
SubmitResponseSent ==
    /\ InSubmit /\ pc = "returned"
    /\ leaderboards' = RunTasks(result.background, user_progress, leaderboards)
    /\ pc' = "sent"
    /\ UNCHANGED <<user_progress, background_tasks, path, result>>
    /\ UNCHANGED <<op, args, attempts, ability, simple_ability, difficulty,
                   hessian, safe_iterations, iter, overall_ability,
                   topic_abilities, estimator_calls, steps>>

\* update_leaderboard_entry: the statistics of the user's rows are upserted
LeaderboardUpsert ==
    /\ InUpdateLeaderboard /\ pc = "call"
    /\ leaderboards' = UpdateLeaderboard(user_progress, leaderboards, args.user_id)
    /\ path' = "final"
    /\ result' = ReturnedValue("None")
    /\ pc' = "returned"
    /\ UNCHANGED <<user_progress, background_tasks>>
    /\ UNCHANGED <<op, args, attempts, ability, simple_ability, difficulty,
                   hessian, safe_iterations, iter, overall_ability,
                   topic_abilities, estimator_calls, steps>>

\* update_leaderboard_entry: a query or the upsert raises; the exception is
\* printed and not propagated
LeaderboardError ==
    /\ InUpdateLeaderboard /\ pc = "call"
    /\ path' = "except"
    /\ result' = ReturnedValue("None")
    /\ pc' = "returned"
    /\ UNCHANGED <<user_progress, leaderboards, background_tasks>>
    /\ UNCHANGED <<op, args, attempts, ability, simple_ability, difficulty,
                   hessian, safe_iterations, iter, overall_ability,
                   topic_abilities, estimator_calls, steps>>

Next ==
    \/ AbilityEmpty
    \/ AbilityBegin
    \/ AbilityLoopEnd
    \/ AbilitySafetyBreak
    \/ AbilityStep
    \/ AbilityFallback
    \/ AbilityReturn
    \/ AbilityUnbound
    \/ DifficultyEmpty
    \/ DifficultyBegin
    \/ DifficultyLoopEnd
    \/ DifficultyStep
    \/ DifficultyOverflow
    \/ DifficultyReturn
    \/ DifficultyUnbound
    \/ ProbabilityCall
    \/ ToLevelCall
    \/ ToIrtCall
    \/ RecommendError
    \/ UserAbilityNoData
    \/ UserAbilityOverall
    \/ UserAbilityTopic
    \/ UserAbilityReturn
    \/ RecommendReturn
    \/ QuestionError
    \/ QuestionNoData
    \/ QuestionClassify
    \/ GenerateInserted
    \/ GenerateRetry
    \/ GenerateGiveUp
    \/ GenerateError
    \/ GenerateExhausted
    \/ SubmitStore
    \/ SubmitReject
    \/ SubmitAddTask
    \/ SubmitReturn
    \/ SubmitResponseSent
    \/ LeaderboardUpsert
    \/ LeaderboardError

Spec == Init /\ [][Next]_vars

\* a step of the request POST /submit-answer: of the handler, or of the server
\* that sends its response
SubmitStep ==
    SubmitStore \/ SubmitReject \/ SubmitAddTask \/ SubmitReturn \/ SubmitResponseSent

\* The server keeps running: a request that can take a step takes one.
FairSpec == Spec /\ WF_vars(SubmitStep)

----------------------------------------------------------------------------
(* Properties *)

InRange(v) == -3 * Scale <= v /\ v <= 3 * Scale

\* n responses at difficulty 0.0, k of them correct, discrimination 1.0, guess 0.25,
\* prior_ability 0.0, prior_weight 1.0
ScenarioArgs(k, n) ==
    [responses |-> CorrectFirst(k, n), difficulties |-> Constant(0, n),
     discriminations_none |-> TRUE, discriminations |-> << >>,
     guess |-> DefaultGuess, prior_ability |-> 0, prior_weight |-> Scale,
     max_iter |-> DefaultMaxIter, tolerance |-> DefaultTolerance]

\* C1 as stated: every ability estimate_ability returns lies in [-3, 3], on the
\* empty-input return, the normal return and the fallback return alike.
C1_AbilityAlwaysInRange ==
    (InAbility /\ pc = "returned") => InRange(result.value)

\* C1 as amended: for a non-empty response list the returned ability lies in
\* [-3, 3] on the normal and the fallback return; for the empty list the returned
\* ability is prior_ability itself, inside [-3, 3] or not.
C1_AbilityInRangeUnlessEmpty ==
    (InAbility /\ pc = "returned") =>
        IF args.responses = << >>
        THEN result.value = args.prior_ability
        ELSE InRange(result.value)

C1_Witness ==
    /\ InAbility /\ pc = "returned" /\ path = "final"
    /\ ~InRange(args.prior_ability)
    /\ steps > 1
    /\ result.value = 3 * Scale

C3_Regression ==
    (InAbility /\ pc = "returned" /\ args = ScenarioArgs(8, 10)) =>
        /\ Scale \div 2 <= result.value /\ result.value <= (3 * Scale) \div 2
        /\ result.confidence > Scale

\* C4: an empty response list (for the difficulty estimator also an empty ability
\* list) returns exactly the prior with confidence 0, and no Newton-Raphson
\* iteration is executed.
C4_EmptyInput ==
    /\ (InAbility /\ args.responses = << >> /\ pc # "call") =>
           /\ pc = "returned"
           /\ result = Returned(args.prior_ability, 0)
           /\ steps = 0 /\ iter = 0
    /\ (InDifficulty /\ (args.responses = << >> \/ args.abilities = << >>) /\ pc # "call") =>
           /\ pc = "returned"
           /\ result = Returned(args.prior_difficulty, 0)
           /\ steps = 0 /\ iter = 0

C4_Witness ==
    /\ InAbility /\ pc = "returned"
    /\ args.responses = << >>
    /\ ~InRange(args.prior_ability)

\* the arguments of a call with one common difficulty and discrimination
CommonDifficulty(a) ==
    /\ a.responses = CorrectFirst(SumSeq(a.responses), Len(a.responses))
    /\ \A i \in 1..Len(a.difficulties) : a.difficulties[i] = a.difficulties[1]
    /\ \A i \in 1..Len(a.discriminations) : a.discriminations[i] = a.discriminations[1]

\* the same call with one more correct answer
OneMoreCorrect(a) ==
    [a EXCEPT !.responses = CorrectFirst(SumSeq(a.responses) + 1, Len(a.responses))]

\* C5: with the count, the common difficulty and every other argument fixed, one
\* more correct answer never gives a lower ability.
C5_MonotoneInCorrect ==
    (/\ InAbility /\ pc = "returned"
     /\ CommonDifficulty(args)
     /\ SumSeq(args.responses) < Len(args.responses)) =>
        LET more == EstimateAbility(OneMoreCorrect(args))
        IN  more.kind = "return" /\ more.value >= result.value

\* C6: on a completed iteration the confidence is min(|H|, 10.0) with H the
\* Hessian -sum p(1-p)disc^2 - prior_weight evaluated at the returned ability.
C6_ConfidenceAtReturnedAbility ==
    (InAbility /\ path = "final") =>
        result.confidence = Min2(Abs(AbilityHessianRaw(result.value, args)), 10 * Scale)

\* C7: when an iteration raises, the call returns exactly (seed, 0.5), the seed
\* being clamp((successRate - 0.5) * 6, -3, 3), the value the search started from.
C7_FallbackReturnsSeed ==
    (InAbility /\ path = "except") =>
        /\ pc = "returned"
        /\ result = Returned(Clamp(Mul(Div(SumSeq(args.responses) * Scale,
                                           Len(args.responses) * Scale) - Scale \div 2,
                                       6 * Scale),
                                   -3 * Scale, 3 * Scale),
                             Scale \div 2)
        /\ result.value = ability

C7_Witness ==
    /\ InAbility /\ path = "except" /\ pc = "returned"
    /\ Len(args.responses) = 2 /\ SumSeq(args.responses) = 1
    /\ args.prior_ability # result.value

\* C8: estimate_ability computes at most min(max_iter, 10) Newton-Raphson steps
\* and estimate_question_difficulty at most max_iter (25 by default); neither
\* takes more than max_iter values from its range.
C8_IterationBound ==
    /\ InAbility => (steps <= Min2(args.max_iter, 10) /\ iter <= args.max_iter)
    /\ InDifficulty => (steps <= args.max_iter /\ iter <= args.max_iter)
    /\ (InDifficulty /\ args.max_iter = DefaultMaxIter) => steps <= 25

C8_Witness ==
    /\ InAbility /\ pc = "returned"
    /\ args.max_iter > 10
    /\ steps = 10

\* C9: 10 correct responses at difficulty 0.0 with the default prior give an
\* ability above 0 and within [-3, 3], with a confidence above 0.
C9_AllCorrect ==
    (InAbility /\ pc = "returned" /\ args = ScenarioArgs(10, 10)) =>
        /\ result.value > 0
        /\ InRange(result.value)
        /\ result.confidence > 0

C9_Witness ==
    /\ InAbility /\ pc = "returned" /\ path = "final"
    /\ args = ScenarioArgs(10, 10)
    /\ steps >= 1

\* C10: 10 incorrect responses at difficulty 0.0 with the default prior give an
\* ability below 0.
C10_AllIncorrect ==
    (InAbility /\ pc = "returned" /\ args = ScenarioArgs(0, 10)) =>
        result.value < 0

C10_Witness ==
    /\ InAbility /\ pc = "returned" /\ path = "final"
    /\ args = ScenarioArgs(0, 10)
    /\ steps >= 1

InToLevel == op = "irt_to_difficulty_level"

InToIrt == op = "difficulty_level_to_irt"

C12_RoundTrip ==
    /\ (InToIrt /\ pc = "returned" /\ args.level \in 1..5) =>
           irt_to_difficulty_level(result.value) = args.level
    /\ (InToLevel /\ pc = "returned") =>
           irt_to_difficulty_level(difficulty_level_to_irt(result.value)) = result.value

C12_Witness ==
    /\ InToIrt /\ pc = "returned"
    /\ args.level = 5
    /\ result.value = 2 * Scale

\* C13: difficulty_level_to_irt gives -2.0, -1.0, 0.0, 1.0, 2.0 for the levels
\* 1..5 and 0.0, not an error, for every other level, None included.
C13_LevelTable ==
    (InToIrt /\ pc # "call") =>
        /\ pc = "returned"
        /\ result.value = IF args.level = 1 THEN -2000
                          ELSE IF args.level = 2 THEN -1000
                          ELSE IF args.level = 3 THEN 0
                          ELSE IF args.level = 4 THEN 1000
                          ELSE IF args.level = 5 THEN 2000
                          ELSE 0

C13_Witness ==
    /\ InToIrt /\ pc = "returned"
    /\ args.level = NoneLevel
    /\ result.value = 0

\* the ability recommend_difficulty read before any challenge bonus
UsedAbility ==
    IF args.challenge_mode
    THEN result.estimated_ability - Scale \div 2
    ELSE result.estimated_ability

C15_TopicFallback ==
    (InRecommend /\ pc = "returned" /\ args.records # << >>) =>
        /\ args.topic \notin TopicsOf(args.records) =>
             UsedAbility = OverallEstimate(args.records).value
        /\ args.topic \in TopicsOf(args.records) =>
             UsedAbility =
                 TopicEstimate(args.records, args.topic,
                               OverallEstimate(args.records).value).value

\* a learner with history in another topic only, whose overall estimate is not 0.0
C15_Witness ==
    /\ InRecommend /\ pc = "returned"
    /\ args.records # << >>
    /\ args.topic \notin TopicsOf(args.records)
    /\ UsedAbility # 0
    /\ UsedAbility = overall_ability
    /\ result = recommend_difficulty(args.records, args.topic, args.challenge_mode)

InProbability == op = "calculate_success_probability"

\* C16: calculate_success_probability clamps the exponent discrimination * (ability -
\* difficulty) to [-15, 15] before exponentiating, and inside that range returns
\* guess + (1 - guess) / (1 + exp(-z)).
C16_ExponentClamped ==
    (InProbability /\ pc = "returned") =>
        LET z == ProbabilityExponent(args.ability, args.difficulty, args.discrimination)
            unclamped == Mul(args.discrimination, args.ability - args.difficulty)
        IN  /\ Abs(z) <= ZLimit
            /\ Abs(unclamped) <= ZLimit =>
                 result.value = args.guess + Mul(Scale - args.guess, Logistic(unclamped))

\* C17: every Newton-Raphson step of estimate_ability moves toward the posterior
\* maximum: with a negative Hessian, a positive gradient gives a new point at or
\* above the current one and a negative gradient one at or below it.
C17_StepTowardMaximum ==
    [][(AbilityStep /\ hessian' < 0) =>
          /\ AbilityGradient(ability, args) > 0 => ability' >= ability
          /\ AbilityGradient(ability, args) < 0 => ability' <= ability]_vars

\* C18: the seed and every iterate of estimate_ability lie in [-3, 3], and
\* consecutive iterates differ by at most 0.5.
C18_IteratesBounded ==
    /\ [](InAbility /\ ability # Unbound => InRange(ability))
    /\ [][AbilityStep => Abs(ability' - ability) <= Scale \div 2]_vars

\* an iteration that moved the estimate by the full 0.5 and stayed inside [-3, 3]
C18_Witness ==
    /\ InAbility /\ pc = "loop" /\ steps = 1
    /\ Abs(ability - Seed(args)) = Scale \div 2
    /\ Abs(ability) < 3 * Scale

\* C19: with prior_weight >= 0 the Hessian that divides the Newton step is negative
\* with magnitude at least 0.01 in every iteration (a raw Hessian with |H| < 0.01
\* is replaced by -0.01), so the step never divides by zero.
C19_HessianNegative ==
    /\ [](InAbility /\ hessian # Unbound /\ args.prior_weight >= 0 =>
            hessian <= -(Scale \div 100))
    /\ [][(AbilityStep /\ args.prior_weight >= 0
                /\ Abs(AbilityHessianRaw(ability, args)) < Scale \div 100) =>
            hessian' = -(Scale \div 100)]_vars

\* an iteration whose raw Hessian was inside (-0.01, 0.01) and was replaced
C19_Witness ==
    /\ InAbility /\ steps = 1 /\ args.prior_weight >= 0
    /\ Abs(AbilityHessianRaw(Seed(args), args)) < Scale \div 100
    /\ hessian = -(Scale \div 100)

\* the seed followed by the first n points the Newton iteration computes from it
RECURSIVE Iterates(_, _)
Iterates(a, n) ==
    IF n = 0 THEN <<Seed(a)>>
    ELSE LET xs == Iterates(a, n - 1)
         IN  Append(xs, AbilityNew(xs[Len(xs)], a))

\* the iteration cap: max_iter, and at most 10 by the safety counter
IterationCap(a) == Min2(a.max_iter, SafeIterationLimit)

\* the number of iterations after which a loop over the points xs stops: the first
\* one with |new - current| < tolerance, else all of them
StopIndex(xs, tolerance) ==
    LET met == {k \in 1..(Len(xs) - 1) : Abs(xs[k + 1] - xs[k]) < tolerance}
    IN  IF met = {} THEN Len(xs) - 1 ELSE CHOOSE k \in met : \A j \in met : k <= j

\* C20: estimate_ability stops at the first iteration with |new - current| <
\* tolerance and returns that new point, else it runs to the iteration cap and
\* returns the last point; no Newton step is executed after the stopping condition.
C20_StopsAtFirstConvergence ==
    /\ [](InAbility /\ path = "final" =>
            LET xs == Iterates(args, IterationCap(args))
                n == StopIndex(xs, args.tolerance)
            IN  steps = n /\ result.value = xs[n + 1])
    /\ [][(InAbility /\ pc = "after") => steps' = steps /\ ability' = ability]_vars

\* a loop stopped before the cap by a step that still moved the estimate
C20_Witness ==
    /\ InAbility /\ path = "final"
    /\ steps >= 2 /\ steps < IterationCap(args)
    /\ LET xs == Iterates(args, steps)
       IN  xs[steps + 1] # xs[steps] /\ result.value = xs[steps + 1]

\* the sum of f over the set S
RECURSIVE SumOver(_, _)
SumOver(f, S) ==
    IF S = {} THEN 0
    ELSE LET x == CHOOSE y \in S : TRUE IN f[x] + SumOver(f, S \ {x})

\* call is an estimate_ability call over exactly the rows `rows`, each tier
\* converted as difficulty_level_to_irt converts it, with prior `prior`
CallOver(call, rows, prior) ==
    /\ Len(call.responses) = Len(rows) /\ Len(call.difficulties) = Len(rows)
    /\ \A i \in 1..Len(rows) :
         /\ call.responses[i] = (IF rows[i].correct THEN 1 ELSE 0)
         /\ call.difficulties[i] = (rows[i].difficulty_level - 3) * Scale
    /\ call.prior_ability = prior

\* C21: on a non-empty history get_user_ability runs the estimator once over all
\* responses with prior INITIAL_ABILITY, then once per distinct topic over that
\* topic's responses with the overall estimate as prior; tiers are converted with
\* difficulty_level_to_irt and questions_answered is the sum of the question counts.
C21_OneEstimatePerTopic ==
    (InUserAbility /\ pc = "returned" /\ args.records # << >>) =>
        LET rows == args.records
            topics == TopicsOf(rows)
            n == Len(estimator_calls)
        IN  /\ n = 1 + Cardinality(topics)
            /\ CallOver(estimator_calls[1], rows, 0)
            /\ result.overall_ability = EstimateAbility(estimator_calls[1]).value
            /\ DOMAIN result.topic_abilities = topics
            /\ \E f \in [topics -> 2..n] :
                 /\ \A t, u \in topics : f[t] = f[u] => t = u
                 /\ \A t \in topics :
                      /\ CallOver(estimator_calls[f[t]], TopicRecords(rows, t),
                                  result.overall_ability)
                      /\ result.topic_abilities[t].ability =
                             EstimateAbility(estimator_calls[f[t]]).value
                      /\ result.topic_abilities[t].question_count =
                             Len(TopicRecords(rows, t))
            /\ result.questions_answered = Len(rows)
            /\ result.questions_answered =
                   SumOver([t \in topics |-> result.topic_abilities[t].question_count],
                           topics)

\* a history over two topics whose overall estimate is not the initial ability
C21_Witness ==
    /\ InUserAbility /\ pc = "returned"
    /\ Cardinality(TopicsOf(args.records)) = 2
    /\ Len(estimator_calls) = 3
    /\ result.overall_ability # INITIAL_ABILITY
    /\ estimator_calls[3].prior_ability = result.overall_ability
    /\ result = get_user_ability(args.records)

\* C22: with prior_weight >= 1 every result of a completed iteration has confidence
\* in [1, 10], so confidence 0 is returned only on empty input and confidence 0.5
\* only on the exception fallback.
C22_ConfidenceTellsDegraded ==
    (InAbility /\ pc = "returned" /\ args.prior_weight >= Scale) =>
        /\ path \in {"empty", "except", "final"}
        /\ path = "final" =>
             steps >= 1 /\ Scale <= result.confidence /\ result.confidence <= 10 * Scale
        /\ (result.confidence = 0) = (path = "empty" /\ args.responses = << >>)
        /\ (result.confidence = Scale \div 2) = (path = "except")

\* a completed estimate whose data curvature alone is above the cap of 10
C22_Witness ==
    /\ InAbility /\ pc = "returned" /\ path = "final"
    /\ args.prior_weight >= Scale
    /\ Abs(hessian) > 10 * Scale
    /\ result.confidence = 10 * Scale

\* the recommendation for the same retrieved abilities and topic in the other mode
OtherMode ==
    Recommendation([overall_ability |-> overall_ability,
                    topic_abilities |-> topic_abilities],
                   args.topic, ~args.challenge_mode)

\* C23: for the same history and topic the tier recommended with challenge mode is
\* never lower than the tier recommended without it, and at most one tier higher.
C23_ChallengeWithinOneTier ==
    (InRecommend /\ pc = "returned") =>
        LET with == IF args.challenge_mode THEN result ELSE OtherMode
            without == IF args.challenge_mode THEN OtherMode ELSE result
        IN  /\ with.challenge_mode /\ ~without.challenge_mode
            /\ without.difficulty_level <= with.difficulty_level
            /\ with.difficulty_level <= without.difficulty_level + 1

\* a history for which the challenge offset stays inside a tier below the top one
C23_Witness ==
    /\ InRecommend /\ pc = "returned"
    /\ args.records # << >>
    /\ args.challenge_mode
    /\ result.difficulty_level < 5
    /\ result.difficulty_level = OtherMode.difficulty_level

\* C24: for a learner without any response record recommend_difficulty returns
\* level 3 for every topic, with and without challenge mode (0.0 + 0.5 = 0.5 is
\* still in tier 3).
C24_ColdStart ==
    (InRecommend /\ pc = "returned" /\ args.records = << >>) =>
        /\ estimator_calls = << >>
        /\ overall_ability = 0
        /\ result.estimated_ability = (IF args.challenge_mode THEN Scale \div 2 ELSE 0)
        /\ result.difficulty_level = 3
        /\ result.topic = args.topic

\* the cold start in challenge mode: ability 0.5, on the boundary of tier 3
C24_Witness ==
    /\ InRecommend /\ pc = "returned"
    /\ args.records = << >>
    /\ args.challenge_mode
    /\ result.estimated_ability = Scale \div 2
    /\ result.difficulty_level = 3

\* the number of correct answers among the recorded answers
CorrectCount(answers) == Cardinality({i \in 1..Len(answers) : answers[i]})

\* C25: get_question_difficulty reports a success rate below 0.2 as level 5, a
\* success rate of 0.8 or more as level 1, and a question without recorded answers
\* as difficulty 0.0, level 3, response_count 0.
C25_SuccessRateLevels ==
    (InQuestion /\ pc = "returned") =>
        LET n == Len(args.answers)
            k == CorrectCount(args.answers)
        IN  /\ n = 0 => /\ result.difficulty = 0
                        /\ result.difficulty_level = 3
                        /\ result.response_count = 0
            /\ (n > 0 /\ 5 * k < n) => result.difficulty_level = 5
            /\ (n > 0 /\ 5 * k >= 4 * n) => result.difficulty_level = 1

\* a pass of the retry loop of generate_sat_question, however it ends
GeneratePass == GenerateInserted \/ GenerateRetry \/ GenerateGiveUp \/ GenerateError

AllRetryable(outcomes) == \A i \in 1..Len(outcomes) : outcomes[i] \in Retryable

\* C26: generate_sat_question with max_retries >= 1 makes at most max_retries
\* passes of generate, validate and insert.  Every pass before the latest one
\* ended in ValueError or HTTPException, so no pass follows one that inserted;
\* the call returns exactly after a pass that inserted, with question_id and the
\* difficulty_level asked for; after a ValueError or HTTPException in a pass that
\* is not the last the call is still running and its next step is another pass;
\* it raises HTTP 500 exactly when max_retries passes were made and all of them
\* ended in ValueError or HTTPException.
C26_RetryLoop ==
    (InGenerate /\ args.max_retries >= 1) =>
        LET n == Len(attempts)
        IN  /\ n <= args.max_retries
            /\ AllRetryable(SubSeq(attempts, 1, n - 1))
            /\ pc = "returned" <=> (n >= 1 /\ attempts[n] = "inserted")
            /\ pc = "returned" =>
                  /\ result.kind = "return"
                  /\ "question_id" \in DOMAIN result
                  /\ result.question_id \in QuestionIds
                  /\ result.difficulty_level = args.difficulty_level
            /\ (n >= 1 /\ n < args.max_retries /\ attempts[n] \in Retryable) =>
                  /\ pc = "retry"
                  /\ ENABLED GeneratePass
                  /\ ~ENABLED GenerateExhausted
            /\ result = RaisedHTTP(500) <=>
                  (n = args.max_retries /\ AllRetryable(attempts))
            /\ result = RaisedHTTP(500) => pc = "raised"

\* the last of three passes inserts the question after two that failed
C26_Witness ==
    /\ InGenerate /\ pc = "returned"
    /\ args.max_retries = MaxRetries
    /\ Len(attempts) = MaxRetries
    /\ attempts[1] = "ValueError" /\ attempts[2] = "HTTPException"
    /\ "question_id" \in DOMAIN result

\* the leaderboards row of user_id holds the statistics of all the rows the user
\* has in user_progress
RowRecomputed(user_id) ==
    LET data == ProgressOf(user_progress, user_id)
        row == leaderboards[user_id]
    IN  /\ row # NoRow
        /\ row.total_questions = Len(data)
        /\ row.correct_answers = Cardinality({i \in 1..Len(data) : data[i].correct})
        /\ row.total_points =
              10 * SumSeq([i \in 1..Len(data) |->
                              IF data[i].correct THEN data[i].difficulty_level ELSE 0])

\* C27: once submit_answer has stored the answer of a user, update_leaderboard_entry
\* is eventually run for that user: the user's leaderboards row comes to hold
\* total_questions, correct_answers and total_points (10 x difficulty_level per
\* correct answer) recomputed from all the user's rows, the new one included.
C27_LeaderboardEventuallyUpdated ==
    (InSubmit /\ pc = "stored") ~> (InSubmit /\ RowRecomputed(args.answer.user_id))

====
